---- MODULE Spec2Model ----
(***************************************************************************)
(* Model of the literature review service                                  *)
(* (src/backend/literature_review_service.py): the content classifier,     *)
(* the content aggregator, the message normaliser and the run_review       *)
(* orchestrator with its progress events.                                  *)
(*                                                                         *)
(* Text is modelled as a sequence of one-character strings, so that        *)
(* str.split, str.strip, str.join and the "in" substring test are computed *)
(* as Python computes them.                                                *)
(***************************************************************************)
EXTENDS Integers, Sequences, FiniteSets, TLC

(***************************************************************************)
(* Bounds of the model.                                                    *)
(***************************************************************************)
\* longest message stream the collaborator yields in one run
MaxMsgs ==
    3

\* largest number of chunks an aggregator input is built from
MaxChunks ==
    5

\* deepest nesting of containers in a message handed to the normaliser
MaxDepth ==
    2

(***************************************************************************)
(* String literals of the source, character by character.                  *)
(***************************************************************************)
FI_FunctionCall ==
    <<"[", "F", "u", "n", "c", "t", "i", "o", "n", "C", "a", "l", "l", "(">>

FI_FunctionExecutionResult ==
    <<"[", "F", "u", "n", "c", "t", "i", "o", "n", "E", "x", "e", "c", "u", "t", "i", "o", "n", "R", "e", "s", "u", "l", "t", "(">>

FI_call_id ==
    <<"c", "a", "l", "l", "_", "i", "d", "=">>

FI_arguments ==
    <<"a", "r", "g", "u", "m", "e", "n", "t", "s", "=">>

FI_name_sq ==
    <<"n", "a", "m", "e", "=", "'", "a", "r", "x", "i", "v", "e", "_", "s", "e", "a", "r", "c", "h", "'">>

FI_name_dq ==
    <<"n", "a", "m", "e", "=", "\"", "a", "r", "x", "i", "v", "e", "_", "s", "e", "a", "r", "c", "h", "\"">>

FI_query ==
    <<"\"", "q", "u", "e", "r", "y", "\"", ":">>

FI_max_result ==
    <<"\"", "m", "a", "x", "_", "r", "e", "s", "u", "l", "t", "\"", ":">>

FI_pdf_url ==
    <<"p", "d", "f", "_", "u", "r", "l">>

FI_published ==
    <<"p", "u", "b", "l", "i", "s", "h", "e", "d">>

FI_authors ==
    <<"a", "u", "t", "h", "o", "r", "s">>

JI_title ==
    <<"'", "t", "i", "t", "l", "e", "'", ":">>

JI_authors ==
    <<"'", "a", "u", "t", "h", "o", "r", "s", "'", ":">>

JI_published ==
    <<"'", "p", "u", "b", "l", "i", "s", "h", "e", "d", "'", ":">>

JI_summary ==
    <<"'", "s", "u", "m", "m", "a", "r", "y", "'", ":">>

JI_pdf_url ==
    <<"'", "p", "d", "f", "_", "u", "r", "l", "'", ":">>

JI_title_sq ==
    <<"{", "'", "t", "i", "t", "l", "e", "'", ":">>

JI_title_dq ==
    <<"{", "\"", "t", "i", "t", "l", "e", "\"", ":">>

MarkerLiteratureReview ==
    <<"L", "i", "t", "e", "r", "a", "t", "u", "r", "e", " ", "R", "e", "v", "i", "e", "w", ":">>

MarkerKeyPapers ==
    <<"K", "e", "y", " ", "P", "a", "p", "e", "r", "s">>

ErrorPrefix ==
    <<"E", "r", "r", "o", "r", " ", "d", "u", "r", "i", "n", "g", " ", "l", "i", "t", "e", "r", "a", "t", "u", "r", "e", " ", "r", "e", "v", "i", "e", "w", ":", " ">>

TextIntro ==
    <<"I", "n", "t", "r", "o", " ", "t", "e", "x", "t">>

TextReview ==
    <<"L", "i", "t", "e", "r", "a", "t", "u", "r", "e", " ", "R", "e", "v", "i", "e", "w", ":", "\n", "-", " ", "P", "a", "p", "e", "r", " ", "A", ".", ".", ".">>

TextToolCall ==
    <<"[", "F", "u", "n", "c", "t", "i", "o", "n", "C", "a", "l", "l", "(", "n", "a", "m", "e", "=", "'", "a", "r", "x", "i", "v", "e", "_", "s", "e", "a", "r", "c", "h", "'", ",", " ", "a", "r", "g", "u", "m", "e", "n", "t", "s", "=", "{", ".", ".", ".", "}", ")", "]">>

TextNarrative ==
    <<"N", "a", "r", "r", "a", "t", "i", "v", "e">>

ExcCredential ==
    <<"i", "n", "v", "a", "l", "i", "d", " ", "a", "p", "i", " ", "k", "e", "y">>

ExcStream ==
    <<"s", "t", "r", "e", "a", "m", " ", "b", "r", "o", "k", "e">>

ExcCallback ==
    <<"c", "a", "l", "l", "b", "a", "c", "k", " ", "f", "a", "i", "l", "e", "d">>

(***************************************************************************)
(* Python string primitives.                                               *)
(***************************************************************************)
\* the characters str.strip() removes
Whitespace ==
    {" ", "\n", "\t", "\r", "\f"}

NL ==
    <<"\n">>

NLNL ==
    <<"\n", "\n">>

\* needle in haystack
Contains(haystack, needle) ==
    \E i \in 1..(Len(haystack) - Len(needle) + 1) :
        SubSeq(haystack, i, i + Len(needle) - 1) = needle

\* haystack.startswith(prefix)
StartsWith(haystack, prefix) ==
    /\ Len(prefix) <= Len(haystack)
    /\ SubSeq(haystack, 1, Len(prefix)) = prefix

\* index of the first occurrence of sep in s, 0 when there is none
FindFirst(s, sep) ==
    LET hits == {i \in 1..(Len(s) - Len(sep) + 1) :
                    SubSeq(s, i, i + Len(sep) - 1) = sep}
    IN  IF hits = {} THEN 0
        ELSE CHOOSE i \in hits : \A j \in hits : i <= j

RECURSIVE Split(_, _)
\* s.split(sep): left to right, non-overlapping, empty pieces kept
Split(s, sep) ==
    LET i == FindFirst(s, sep)
    IN  IF i = 0 THEN <<s>>
        ELSE <<SubSeq(s, 1, i - 1)>>
                 \o Split(SubSeq(s, i + Len(sep), Len(s)), sep)

\* s.strip()
Strip(s) ==
    LET keep == {i \in 1..Len(s) : s[i] \notin Whitespace}
    IN  IF keep = {} THEN <<>>
        ELSE LET lo == CHOOSE i \in keep : \A j \in keep : i <= j
                 hi == CHOOSE i \in keep : \A j \in keep : j <= i
             IN  SubSeq(s, lo, hi)

RECURSIVE Join(_, _)
\* sep.join(parts)
Join(sep, parts) ==
    IF parts = <<>> THEN <<>>
    ELSE IF Len(parts) = 1 THEN parts[1]
    ELSE parts[1] \o sep \o Join(sep, Tail(parts))

(***************************************************************************)
(* ContentClassifier                                                       *)
(***************************************************************************)
function_indicators ==
    {FI_FunctionCall, FI_FunctionExecutionResult, FI_call_id, FI_arguments,
     FI_name_sq, FI_name_dq, FI_query, FI_max_result, FI_pdf_url,
     FI_published, FI_authors}

json_indicators ==
    {JI_title, JI_authors, JI_published, JI_summary, JI_pdf_url,
     JI_title_sq, JI_title_dq}

is_function_call_message(content) ==
    /\ content # <<>>
    /\ \E indicator \in function_indicators : Contains(content, indicator)

is_raw_json_data(content) ==
    /\ content # <<>>
    /\ \E indicator \in json_indicators : Contains(content, indicator)

(***************************************************************************)
(* ContentAggregator                                                       *)
(***************************************************************************)
\* ReviewStep with the review started by the header markers alone
ReviewStep_MarkersOnly(st, rawline) ==
    LET line == Strip(rawline)
    IN  IF ~st.started /\ line = <<>> THEN st
        ELSE IF /\ ~st.started
                /\ \/ Contains(line, MarkerLiteratureReview)
                   \/ Contains(line, MarkerKeyPapers)
             THEN [started |-> TRUE, lines |-> Append(st.lines, line)]
        ELSE IF st.started
             THEN [started |-> TRUE, lines |-> Append(st.lines, line)]
        ELSE st

\* ReviewStep with the line that starts the review not kept
ReviewStep_DropsStartLine(st, rawline) ==
    LET line == Strip(rawline)
    IN  IF ~st.started /\ line = <<>> THEN st
        ELSE IF /\ ~st.started
                /\ \/ Contains(line, MarkerLiteratureReview)
                   \/ Contains(line, MarkerKeyPapers)
                   \/ /\ line # <<>>
                      /\ ~is_function_call_message(line)
                      /\ ~is_raw_json_data(line)
             THEN [started |-> TRUE, lines |-> st.lines]
        ELSE IF st.started
             THEN [started |-> TRUE, lines |-> Append(st.lines, line)]
        ELSE st

\* one iteration of the loop of extract_final_review_only; st is the pair
\* of the loop's locals [started |-> review_started, lines |-> review_lines]
ReviewStep(st, rawline) ==
    LET line == Strip(rawline)
    IN  IF ~st.started /\ line = <<>> THEN st
        ELSE IF /\ ~st.started
                /\ \/ Contains(line, MarkerLiteratureReview)
                   \/ Contains(line, MarkerKeyPapers)
                   \/ /\ line # <<>>
                      /\ ~is_function_call_message(line)
                      /\ ~is_raw_json_data(line)
             THEN [started |-> TRUE, lines |-> Append(st.lines, line)]
        ELSE IF st.started
             THEN [started |-> TRUE, lines |-> Append(st.lines, line)]
        ELSE st

RECURSIVE ReviewLoop(_, _)
ReviewLoop(st, lines) ==
    IF lines = <<>> THEN st
    ELSE ReviewLoop(ReviewStep(st, Head(lines)), Tail(lines))

extract_final_review_only(content) ==
    IF content = <<>> THEN <<>>
    ELSE Strip(Join(NL, ReviewLoop([started |-> FALSE, lines |-> <<>>],
                                   Split(content, NL)).lines))

\* one iteration of the loop of clean_content; st holds the loop's locals
\* [clean_sections |-> list, seen_content |-> set]
CleanStep(st, rawsection) ==
    LET section == Strip(rawsection)
    IN  IF section = <<>> THEN st
        ELSE IF is_function_call_message(section) \/ is_raw_json_data(section)
             THEN st
        ELSE IF section \in st.seen_content THEN st
        ELSE [clean_sections |-> Append(st.clean_sections, section),
              seen_content   |-> st.seen_content \cup {section}]

RECURSIVE CleanLoop(_, _)
CleanLoop(st, sections) ==
    IF sections = <<>> THEN st
    ELSE CleanLoop(CleanStep(st, Head(sections)), Tail(sections))

clean_content(content) ==
    IF content = <<>> THEN <<>>
    ELSE LET clean_sections ==
                 CleanLoop([clean_sections |-> <<>>, seen_content |-> {}],
                           Split(content, NLNL)).clean_sections
             cleaned_content == Join(NLNL, clean_sections)
             final_review == extract_final_review_only(cleaned_content)
         IN  IF final_review # <<>> THEN final_review ELSE cleaned_content

(***************************************************************************)
(* MessageNormalizer                                                       *)
(* A message is a record; hasattr(msg, f) is f \in DOMAIN msg.  The fields *)
(* content, summary, text and message hold texts.  The fields messages and *)
(* inner_messages hold either a Python list, written [list |-> <<...>>],   *)
(* or a single message.  The field raises, when present, is the set of     *)
(* attributes whose access raises an exception other than AttributeError.  *)
(***************************************************************************)
\* reading attribute f of msg raises
Raises(msg, f) ==
    /\ "raises" \in DOMAIN msg
    /\ f \in msg["raises"]

\* hasattr(msg, f) and msg.f, for the attributes that hold text
HasTruthy(msg, f) ==
    /\ f \in DOMAIN msg
    /\ msg[f] # <<>>

\* isinstance(value, list)
IsList(value) ==
    "list" \in DOMAIN value

\* hasattr(msg, f) and msg.f, for messages and inner_messages: an empty
\* list is falsy, a message object is truthy
HasTruthyContainer(msg, f) ==
    /\ f \in DOMAIN msg
    /\ IsList(msg[f]) => msg[f]["list"] # <<>>

\* LastOf with the first element of the list taken
LastOf_First(value) ==
    IF IsList(value) THEN value["list"][1] ELSE value

\* value[-1] if isinstance(value, list) else value
LastOf(value) ==
    IF IsList(value) THEN value["list"][Len(value["list"])] ELSE value

RECURSIVE extract_message_content(_)
\* every "raises" branch is the except clause of lines 197-198
extract_message_content(msg) ==
    IF Raises(msg, "content") THEN <<>>
    ELSE IF HasTruthy(msg, "content") THEN msg["content"]
    ELSE IF Raises(msg, "summary") THEN <<>>
    ELSE IF HasTruthy(msg, "summary") THEN msg["summary"]
    ELSE IF Raises(msg, "messages") THEN <<>>
    ELSE IF HasTruthyContainer(msg, "messages")
         THEN extract_message_content(LastOf(msg["messages"]))
    ELSE IF Raises(msg, "inner_messages") THEN <<>>
    ELSE IF HasTruthyContainer(msg, "inner_messages")
         THEN extract_message_content(LastOf(msg["inner_messages"]))
    ELSE IF Raises(msg, "text") THEN <<>>
    ELSE IF HasTruthy(msg, "text") THEN msg["text"]
    ELSE IF Raises(msg, "message") THEN <<>>
    ELSE IF HasTruthy(msg, "message") THEN msg["message"]
    ELSE <<>>

(***************************************************************************)
(* Inputs of the model.                                                    *)
(***************************************************************************)
\* messages the collaborator's stream may yield
StreamMsgs ==
    {[content |-> TextIntro],
     [content |-> TextReview],
     [content |-> TextToolCall],
     [content |-> <<>>, summary |-> TextNarrative],
     [source |-> <<"u">>]}

\* values of config.max_results
MaxResultsValues ==
    {3, 5}

\* descriptions of the exceptions the collaborator raises
TeamExceptions ==
    {ExcCredential}

StreamExceptions ==
    {ExcStream}

\* pieces the inputs of the aggregator are concatenated from
Chunks ==
    {<<"A">>, MarkerKeyPapers, <<"\n">>, <<"\n", "\n">>, <<" ">>, FI_call_id}

\* the text a message carries in its attribute f
FieldText(f) ==
    <<f>>

\* messages without containers: every combination of content absent,
\* empty or set, summary absent, set or raising, text and message absent
\* or set
LeafMsgs ==
    {[f \in S \cup R |-> IF f = "raises" THEN {"summary"}
                         ELSE IF f \in E THEN <<>> ELSE FieldText(f)] :
        S \in SUBSET {"content", "summary", "text", "message"},
        E \in SUBSET {"content"},
        R \in {{}, {"raises"}}}

\* an element of a list that is not its last element
Filler ==
    [content |-> <<"filler">>]

\* values of the attribute messages around the message inner
MessagesValues(inner) ==
    {[list |-> <<>>], [list |-> <<Filler, inner>>], inner}

\* values of the attribute inner_messages around the message inner
InnerMessagesValues(inner) ==
    {[list |-> <<Filler, inner>>], [list |-> <<inner, Filler>>]}

\* messages that hold the message inner in a container
Wrappers(inner) ==
    {[f \in S |-> IF f = "messages" THEN m
                 ELSE IF f = "inner_messages" THEN i
                 ELSE FieldText(f)] :
        S \in {T \in SUBSET {"messages", "inner_messages", "text"} :
                  T \cap {"messages", "inner_messages"} # {}},
        m \in MessagesValues(inner),
        i \in InnerMessagesValues(inner)}

(***************************************************************************)
(* State                                                                   *)
(***************************************************************************)
VARIABLES
    pc,                 \* position of run_review
    config,             \* the ReviewConfig the caller passed
    progress_callback,  \* TRUE when a subscriber was passed
    delivered,          \* ProgressEvents the subscriber was called with
    all_messages,       \* run_review's buffer of normalised texts
    message_count,      \* run_review's message counter
    yielded,            \* the messages team.run_stream has yielded so far
    exc,                \* the exception caught at the except clause
    result,             \* the ReviewResult returned, NoResult before
    propagated,         \* the exception that left run_review, "none" if none
    cc_pc,              \* position of the aggregator harness
    cc_input,           \* text handed to clean_content
    cc_chunks,          \* number of chunks cc_input was built from
    cc_once,            \* clean_content(cc_input)
    cc_twice,           \* clean_content(cc_once)
    nm_pc,              \* position of the normaliser harness
    nm_msg,             \* message handed to extract_message_content
    nm_depth,           \* number of containers nm_msg was wrapped in
    nm_out              \* extract_message_content(nm_msg)

vars ==
    <<pc, config, progress_callback, delivered, all_messages, message_count,
      yielded, exc, result, propagated, cc_pc, cc_input, cc_chunks, cc_once, cc_twice,
      nm_pc, nm_msg, nm_depth, nm_out>>

review_vars ==
    <<pc, config, progress_callback, delivered, all_messages, message_count,
      yielded, exc, result, propagated>>

cc_vars ==
    <<cc_pc, cc_input, cc_chunks, cc_once, cc_twice>>

nm_vars ==
    <<nm_pc, nm_msg, nm_depth, nm_out>>

NoResult ==
    [none |-> TRUE]

NoConfig ==
    [none |-> TRUE]

NoException ==
    [origin |-> "none", desc |-> <<>>]

\* ReviewStatus
INITIALIZING ==
    "initializing"

SEARCHING ==
    "searching"

SUMMARIZING ==
    "summarizing"

COMPLETED ==
    "completed"

ERROR ==
    "error"

\* ReviewProgress(status, message, percent); the timestamp is left out
ReviewProgress(status, percent) ==
    [status |-> status, progress_percent |-> percent]

Init ==
    /\ pc = "idle"
    /\ config = NoConfig
    /\ progress_callback = FALSE
    /\ delivered = <<>>
    /\ all_messages = <<>>
    /\ message_count = 0
    /\ yielded = <<>>
    /\ exc = NoException
    /\ result = NoResult
    /\ propagated = "none"
    /\ cc_pc = "build"
    /\ cc_input = <<>>
    /\ cc_chunks = 0
    /\ cc_once = <<>>
    /\ cc_twice = <<>>
    /\ nm_pc = "new"
    /\ nm_msg = [source |-> <<"u">>]
    /\ nm_depth = 0
    /\ nm_out = <<>>

(***************************************************************************)
(* ReviewOrchestrator: run_review                                          *)
(***************************************************************************)
\* what a call of the subscriber may do: return (FALSE) or raise (TRUE);
\* without a subscriber update_progress does nothing
CallbackOutcomes ==
    IF progress_callback THEN {FALSE, TRUE} ELSE {FALSE}

\* update_progress: the events delivered after the call
update_progress(status, percent) ==
    IF progress_callback
    THEN Append(delivered, ReviewProgress(status, percent))
    ELSE delivered

CallbackError ==
    [origin |-> "callback", desc |-> ExcCallback]

\* the caller invokes run_review(config, progress_callback)
run_review_call ==
    /\ pc = "idle"
    /\ \E m \in MaxResultsValues, cb \in BOOLEAN :
          /\ config' = [topic |-> "federated learning", max_results |-> m]
          /\ progress_callback' = cb
    /\ pc' = "l223"
    /\ UNCHANGED <<delivered, all_messages, message_count, yielded, exc, result,
                   propagated, cc_vars, nm_vars>>

\* line 223
EmitInitializing ==
    /\ pc = "l223"
    /\ delivered' = update_progress(INITIALIZING, 10)
    /\ \E raises \in CallbackOutcomes :
          IF raises
          THEN exc' = CallbackError /\ pc' = "except"
          ELSE exc' = exc /\ pc' = "l226"
    /\ UNCHANGED <<config, progress_callback, all_messages, message_count, yielded,
                   result, propagated, cc_vars, nm_vars>>

\* lines 226-229: create_literature_review_team returns or raises
CreateTeam ==
    /\ pc = "l226"
    /\ \/ pc' = "l232" /\ exc' = exc
       \/ \E d \in TeamExceptions :
             exc' = [origin |-> "team", desc |-> d] /\ pc' = "except"
    /\ UNCHANGED <<config, progress_callback, delivered, all_messages,
                   message_count, yielded, result, propagated, cc_vars, nm_vars>>

\* lines 232-239
EmitSearching ==
    /\ pc = "l232"
    /\ delivered' = update_progress(SEARCHING, 25)
    /\ \E raises \in CallbackOutcomes :
          IF raises
          THEN /\ exc' = CallbackError /\ pc' = "except"
               /\ UNCHANGED <<all_messages, message_count, yielded>>
          ELSE /\ exc' = exc /\ pc' = "l241"
               /\ all_messages' = <<>>
               /\ message_count' = 0
               /\ yielded' = yielded
    /\ UNCHANGED <<config, progress_callback, result, propagated, cc_vars, nm_vars>>

\* line 241
EmitAnalyzing ==
    /\ pc = "l241"
    /\ delivered' = update_progress(SUMMARIZING, 50)
    /\ \E raises \in CallbackOutcomes :
          IF raises
          THEN exc' = CallbackError /\ pc' = "except"
          ELSE exc' = exc /\ pc' = "l244"
    /\ UNCHANGED <<config, progress_callback, all_messages, message_count, yielded,
                   result, propagated, cc_vars, nm_vars>>

\* StreamYield with the empty texts appended to the buffer as well
StreamYield_KeepsEmpty ==
    /\ pc = "l244"
    /\ message_count < MaxMsgs
    /\ \E msg \in StreamMsgs :
          /\ yielded' = Append(yielded, msg)
          /\ all_messages' = Append(all_messages, extract_message_content(msg))
    /\ message_count' = message_count + 1
    /\ delivered' = IF message_count' = 1
                    THEN update_progress(SEARCHING, 60)
                    ELSE update_progress(SUMMARIZING, 80)
    /\ \E raises \in CallbackOutcomes :
          IF raises
          THEN exc' = CallbackError /\ pc' = "except"
          ELSE exc' = exc /\ pc' = "l244"
    /\ UNCHANGED <<config, progress_callback, result, propagated, cc_vars,
                   nm_vars>>

\* lines 244-256: the stream yields msg and the loop body runs
StreamYield ==
    /\ pc = "l244"
    /\ message_count < MaxMsgs
    /\ \E msg \in StreamMsgs :
          LET content == extract_message_content(msg)
          IN  /\ yielded' = Append(yielded, msg)
              /\ all_messages' = IF content # <<>>
                                 THEN Append(all_messages, content)
                                 ELSE all_messages
    /\ message_count' = message_count + 1
    /\ delivered' = IF message_count' = 1
                    THEN update_progress(SEARCHING, 60)
                    ELSE update_progress(SUMMARIZING, 80)
    /\ \E raises \in CallbackOutcomes :
          IF raises
          THEN exc' = CallbackError /\ pc' = "except"
          ELSE exc' = exc /\ pc' = "l244"
    /\ UNCHANGED <<config, progress_callback, result, propagated, cc_vars,
                   nm_vars>>

\* line 244: the stream is exhausted
StreamEnd ==
    /\ pc = "l244"
    /\ pc' = "l259"
    /\ UNCHANGED <<config, progress_callback, delivered, all_messages,
                   message_count, yielded, exc, result, propagated, cc_vars, nm_vars>>

\* line 244: iterating the stream raises an Exception
StreamRaise ==
    /\ pc = "l244"
    /\ \E d \in StreamExceptions : exc' = [origin |-> "stream", desc |-> d]
    /\ pc' = "except"
    /\ UNCHANGED <<config, progress_callback, delivered, all_messages,
                   message_count, yielded, result, propagated, cc_vars, nm_vars>>

\* line 244: the task is cancelled while it awaits the next message;
\* asyncio.CancelledError is a BaseException, which "except Exception"
\* (line 274) does not catch, so it leaves run_review
StreamCancelled ==
    /\ pc = "l244"
    /\ propagated' = "CancelledError"
    /\ pc' = "done"
    /\ UNCHANGED <<config, progress_callback, delivered, all_messages,
                   message_count, yielded, exc, result, cc_vars, nm_vars>>

\* SuccessResult with papers_found counted from the stream
SuccessResult_CountsMessages(cleaned_content) ==
    [success |-> TRUE, content |-> cleaned_content, error_message |-> <<>>,
     config |-> config, papers_found |-> message_count]

\* the ReviewResult of lines 266-272; execution_time is left out
SuccessResult(cleaned_content) ==
    [success |-> TRUE, content |-> cleaned_content, error_message |-> <<>>,
     config |-> config, papers_found |-> config.max_results]

\* ErrorResult with the description of the exception left out of the
\* error message
ErrorResult_NoDescription(error_msg) ==
    [success |-> FALSE, content |-> <<>>, error_message |-> ErrorPrefix,
     config |-> config, papers_found |-> 0]

\* the ReviewResult of lines 279-284
ErrorResult(error_msg) ==
    [success |-> FALSE, content |-> <<>>, error_message |-> error_msg,
     config |-> config, papers_found |-> 0]

\* lines 259-272
Complete ==
    /\ pc = "l259"
    /\ LET raw_content == Join(NLNL, all_messages)
           cleaned_content == clean_content(raw_content)
       IN  /\ delivered' = update_progress(COMPLETED, 100)
           /\ \E raises \in CallbackOutcomes :
                 IF raises
                 THEN exc' = CallbackError /\ pc' = "except"
                      /\ result' = result
                 ELSE exc' = exc /\ pc' = "done"
                      /\ result' = SuccessResult(cleaned_content)
    /\ UNCHANGED <<config, progress_callback, all_messages, message_count, yielded,
                   propagated, cc_vars, nm_vars>>

\* lines 274-284: an exception raised by the subscriber inside the except
\* clause is not caught and leaves run_review
HandleException ==
    /\ pc = "except"
    /\ LET error_msg == ErrorPrefix \o exc.desc
       IN  /\ delivered' = update_progress(ERROR, 0)
           /\ \E raises \in CallbackOutcomes :
                 IF raises
                 THEN propagated' = "Exception" /\ result' = result
                 ELSE propagated' = propagated
                      /\ result' = ErrorResult(error_msg)
    /\ pc' = "done"
    /\ UNCHANGED <<config, progress_callback, all_messages, message_count, yielded,
                   exc, cc_vars, nm_vars>>

Next ==
    \/ run_review_call
    \/ EmitInitializing
    \/ CreateTeam
    \/ EmitSearching
    \/ EmitAnalyzing
    \/ StreamYield
    \/ StreamEnd
    \/ StreamRaise
    \/ StreamCancelled
    \/ Complete
    \/ HandleException

Spec ==
    Init /\ [][Next]_vars

(***************************************************************************)
(* Harness for the aggregator as a pure function: an input is built chunk  *)
(* by chunk, clean_content is applied to it, and applied again to its own  *)
(* output.                                                                 *)
(***************************************************************************)
AppendChunk ==
    /\ cc_pc = "build"
    /\ cc_chunks < MaxChunks
    /\ \E c \in Chunks : cc_input' = cc_input \o c
    /\ cc_chunks' = cc_chunks + 1
    /\ UNCHANGED <<cc_pc, cc_once, cc_twice, review_vars, nm_vars>>

ApplyClean ==
    /\ cc_pc = "build"
    /\ cc_once' = clean_content(cc_input)
    /\ cc_pc' = "once"
    /\ UNCHANGED <<cc_input, cc_chunks, cc_twice, review_vars, nm_vars>>

ApplyCleanAgain ==
    /\ cc_pc = "once"
    /\ cc_twice' = clean_content(cc_once)
    /\ cc_pc' = "twice"
    /\ UNCHANGED <<cc_input, cc_chunks, cc_once, review_vars, nm_vars>>

NextClean ==
    \/ AppendChunk
    \/ ApplyClean
    \/ ApplyCleanAgain

SpecClean ==
    Init /\ [][NextClean]_vars

(***************************************************************************)
(* Harness for the normaliser as a pure function: a message is chosen,     *)
(* wrapped in containers, and extract_message_content is applied to it.    *)
(***************************************************************************)
ChooseLeaf ==
    /\ nm_pc = "new"
    /\ nm_msg' \in LeafMsgs
    /\ nm_pc' = "built"
    /\ UNCHANGED <<nm_depth, nm_out, review_vars, cc_vars>>

Wrap ==
    /\ nm_pc = "built"
    /\ nm_depth < MaxDepth
    /\ nm_msg' \in Wrappers(nm_msg)
    /\ nm_depth' = nm_depth + 1
    /\ UNCHANGED <<nm_pc, nm_out, review_vars, cc_vars>>

ApplyExtract ==
    /\ nm_pc = "built"
    /\ nm_out' = extract_message_content(nm_msg)
    /\ nm_pc' = "extracted"
    /\ UNCHANGED <<nm_msg, nm_depth, review_vars, cc_vars>>

NextExtract ==
    \/ ChooseLeaf
    \/ Wrap
    \/ ApplyExtract

SpecExtract ==
    Init /\ [][NextExtract]_vars

(***************************************************************************)
(* Vocabulary of the properties                                            *)
(***************************************************************************)
Returned ==
    "success" \in DOMAIN result

LastDelivered ==
    delivered[Len(delivered)]

IsTerminal(ev) ==
    ev.status \in {COMPLETED, ERROR}

Emitted(status) ==
    \E i \in 1..Len(delivered) : delivered[i].status = status

\* the blank-line-separated sections of a text
Sections(text) ==
    LET pieces == Split(text, NLNL)
        stripped == [i \in 1..Len(pieces) |-> Strip(pieces[i])]
    IN  SelectSeq(stripped, LAMBDA p : p # <<>>)

SectionSet(text) ==
    {Sections(text)[i] : i \in 1..Len(Sections(text))}

IsNoise(section) ==
    is_function_call_message(section) \/ is_raw_json_data(section)

RECURSIVE FirstOccurrences(_)
\* s without the repetitions of an earlier element
FirstOccurrences(s) ==
    IF s = <<>> THEN <<>>
    ELSE LET front == FirstOccurrences(SubSeq(s, 1, Len(s) - 1))
             last == s[Len(s)]
         IN  IF \E i \in 1..(Len(s) - 1) : s[i] = last
             THEN front
             ELSE Append(front, last)

\* a section with each of its lines trimmed, as the final-narrative step
\* leaves it
TrimLines(section) ==
    LET ls == Split(section, NL)
    IN  Join(NL, [i \in 1..Len(ls) |-> Strip(ls[i])])

(***************************************************************************)
(* Properties of run_review, checked under Spec                            *)
(***************************************************************************)
\* C1: a successful run over n >= 1 messages delivers exactly
\* Initializing(10), Searching(25), Searching(60), n-1 times
\* Summarizing(80), Completed(100), and nothing in between.
C1_SuccessSequence ==
    (/\ pc = "done" /\ progress_callback /\ Returned /\ result.success
     /\ message_count >= 1)
    => delivered =
          <<ReviewProgress(INITIALIZING, 10), ReviewProgress(SEARCHING, 25),
            ReviewProgress(SEARCHING, 60)>>
          \o [i \in 1..(message_count - 1) |-> ReviewProgress(SUMMARIZING, 80)]
          \o <<ReviewProgress(COMPLETED, 100)>>

\* C2: a run whose stream yields one message and then raises delivers
\* exactly Initializing(10), Searching(25), Searching(60), Error(0).
C2_StreamFailureSequence ==
    (/\ pc = "done" /\ progress_callback /\ exc.origin = "stream"
     /\ message_count = 1)
    => delivered =
          <<ReviewProgress(INITIALIZING, 10), ReviewProgress(SEARCHING, 25),
            ReviewProgress(SEARCHING, 60), ReviewProgress(ERROR, 0)>>

\* C3: with a subscriber, whether the collaborator succeeds or fails and
\* whether or not the subscriber raises, the delivered sequence holds
\* exactly one Completed-or-Error event, which is its last event.
C3_OneTerminalEvent ==
    progress_callback =>
        /\ \A i \in 1..Len(delivered) :
              IsTerminal(delivered[i]) => i = Len(delivered)
        /\ (pc = "done" /\ propagated # "CancelledError")
              => (delivered # <<>> /\ IsTerminal(LastDelivered))

\* C4: run_review never propagates an exception raised by team
\* construction, by the stream or by the subscriber at any checkpoint; it
\* returns a ReviewResult, with success = false after any such exception.
C4_NeverRaises ==
    (pc = "done" /\ propagated # "CancelledError")
    => /\ propagated = "none"
       /\ Returned
       /\ (exc.origin # "none" => ~result.success)

\* C5: Completed is emitted iff the returned result has success = true,
\* Error is emitted iff the returned result has success = false with empty
\* content, and no run emits both.
C5_NoPartialSuccess ==
    (pc = "done" /\ progress_callback)
    => /\ Emitted(COMPLETED) <=> (Returned /\ result.success)
       /\ Emitted(ERROR) <=>
             (Returned /\ ~result.success /\ result.content = <<>>)
       /\ ~(Emitted(COMPLETED) /\ Emitted(ERROR))

\* C6: when the stream consumption is abandoned by a cancellation, the run
\* still ends with a final Error event.
C6_CancellationReportsError ==
    (pc = "done" /\ progress_callback /\ propagated = "CancelledError")
    => (delivered # <<>> /\ LastDelivered.status = ERROR)

\* C7: when team construction raises, the run emits no Searching and no
\* Summarizing event, its last event is Error with percent 0, and the
\* result it returns (it returns one unless the subscriber raises at the
\* Error checkpoint) has success = false, empty content and an
\* error_message made of the fixed prefix followed by the description of
\* the exception.
C7_TeamFailure ==
    (pc = "done" /\ exc.origin = "team")
    => /\ progress_callback =>
             /\ delivered # <<>>
             /\ LastDelivered = ReviewProgress(ERROR, 0)
             /\ ~Emitted(SEARCHING)
             /\ ~Emitted(SUMMARIZING)
       /\ propagated = "none" =>
             /\ Returned
             /\ ~result.success
             /\ result.content = <<>>
             /\ StartsWith(result.error_message, ErrorPrefix)
             /\ exc.desc # <<>>
             /\ SubSeq(result.error_message, Len(ErrorPrefix) + 1,
                       Len(result.error_message)) = exc.desc

\* C7 witness: team construction raised and a result was returned to a
\* caller that subscribed
C7_Witness ==
    /\ pc = "done"
    /\ exc.origin = "team"
    /\ progress_callback
    /\ Returned

\* C8: when the stream yields "Intro text" and then a message whose first
\* line is "Literature Review:", the result is successful, its content
\* starts with "Literature Review:" and papers_found is max_results (3).
C8_ContentStartsAtHeader ==
    (/\ pc = "done" /\ Returned /\ exc.origin = "none"
     /\ all_messages = <<TextIntro, TextReview>> /\ message_count = 2
     /\ config.max_results = 3)
    => /\ result.success
       /\ StartsWith(result.content, MarkerLiteratureReview)
       /\ result.papers_found = 3

(***************************************************************************)
(* Properties of the aggregator, checked under SpecClean                   *)
(***************************************************************************)
\* C9: the sections of the output of clean_content contain no noise
\* section and no two equal sections, and are the non-noise sections of
\* the input (each with its lines trimmed) in the order of their first
\* occurrence.
C9_OutputSections ==
    cc_pc = "once" =>
        LET out == Sections(cc_once)
        IN  /\ \A i \in 1..Len(out) : ~IsNoise(out[i])
            /\ \A i, j \in 1..Len(out) : out[i] = out[j] => i = j
            /\ LET kept == FirstOccurrences(
                                SelectSeq(Sections(cc_input),
                                          LAMBDA p : ~IsNoise(p)))
               IN  out = [i \in 1..Len(kept) |-> TrimLines(kept[i])]

FieldOrder ==
    <<"content", "summary", "messages", "inner_messages", "text", "message">>

ContainerFields ==
    {"messages", "inner_messages"}

\* the messages a container value holds
Elements(value) ==
    IF "list" \in DOMAIN value
    THEN {value["list"][i] : i \in 1..Len(value["list"])}
    ELSE {value}

\* the message a container value resolves to, none for an empty list
LastElements(value) ==
    IF "list" \in DOMAIN value
    THEN {value["list"][i] : i \in {Len(value["list"])} \ {0}}
    ELSE {value}

RECURSIVE HasRaising(_)
\* some attribute access in msg or below it raises
HasRaising(msg) ==
    \/ "raises" \in DOMAIN msg
    \/ \E f \in ContainerFields \cap DOMAIN msg :
          \E m \in Elements(msg[f]) : HasRaising(m)

RECURSIVE FirstNonEmptyText(_)
\* the text C11 describes: in the fixed order, the first attribute that
\* yields non-empty text, containers resolved through their last element
FirstNonEmptyText(msg) ==
    LET yield(f) ==
            IF f \notin DOMAIN msg THEN <<>>
            ELSE IF f \in ContainerFields
                 THEN IF LastElements(msg[f]) = {} THEN <<>>
                      ELSE FirstNonEmptyText(
                               CHOOSE m \in LastElements(msg[f]) : TRUE)
            ELSE msg[f]
        hits == {i \in 1..Len(FieldOrder) : yield(FieldOrder[i]) # <<>>}
    IN  IF hits = {} THEN <<>>
        ELSE yield(FieldOrder[CHOOSE i \in hits : \A j \in hits : i <= j])

RECURSIVE FirstTruthyAttribute(_)
\* the text of the amended C11: the first attribute in the fixed order
\* that raises or is truthy decides; a raising attribute gives the empty
\* text, a text attribute its value, a container the text of its last
\* element, empty or not
FirstTruthyAttribute(msg) ==
    LET raising(f) == "raises" \in DOMAIN msg /\ f \in msg["raises"]
        truthy(f) ==
            /\ f \in DOMAIN msg
            /\ IF f \in ContainerFields
               THEN LastElements(msg[f]) # {}
               ELSE msg[f] # <<>>
        hits == {i \in 1..Len(FieldOrder) :
                    raising(FieldOrder[i]) \/ truthy(FieldOrder[i])}
    IN  IF hits = {} THEN <<>>
        ELSE LET f == FieldOrder[CHOOSE i \in hits : \A j \in hits : i <= j]
             IN  IF raising(f) THEN <<>>
                 ELSE IF f \in ContainerFields
                      THEN FirstTruthyAttribute(
                               CHOOSE m \in LastElements(msg[f]) : TRUE)
                 ELSE msg[f]

\* C11 as stated: extract_message_content returns the value of the first
\* of content, summary, last of messages, last of inner_messages, text,
\* message that yields non-empty text, and the empty text only when none
\* of them does.
C11_FirstNonEmptyWins ==
    (nm_pc = "extracted" /\ ~HasRaising(nm_msg))
    => nm_out = FirstNonEmptyText(nm_msg)

\* C11 as amended: the first attribute in the fixed order that is present
\* and truthy decides the result, a container through the recursive result
\* for its last element even when that result is empty; the result is
\* empty when no attribute is truthy or when an attribute access raises
\* first.
C11_FirstTruthyCommits ==
    nm_pc = "extracted" => nm_out = FirstTruthyAttribute(nm_msg)

\* C11 witness: a nested message whose container resolves to the empty
\* text while its own text attribute is set
C11_Witness ==
    /\ nm_pc = "extracted"
    /\ nm_depth >= 1
    /\ nm_out = <<>>
    /\ "text" \in DOMAIN nm_msg
    /\ ~HasRaising(nm_msg)

(***************************************************************************)
(* Further properties of run_review, checked under Spec                    *)
(***************************************************************************)
\* C12: a successful run returns papers_found = config.max_results
\* whatever the stream contained, a failed run returns papers_found = 0,
\* the result carries the config the caller passed, and no step of
\* run_review changes the config.
C12_PapersFoundAndConfig ==
    /\ [](  (pc = "done" /\ Returned)
            => /\ result.config = config
               /\ result.success => result.papers_found = config.max_results
               /\ ~result.success => result.papers_found = 0)
    /\ [][pc # "idle" => config' = config]_vars

\* C12 witness: a successful run over an empty stream
C12_Witness ==
    /\ pc = "done"
    /\ Returned
    /\ result.success
    /\ message_count = 0
    /\ config.max_results = 5

\* rank of a status in the order Initializing < Searching < Summarizing <
\* Completed
StatusRank(status) ==
    CASE status = INITIALIZING -> 1
      [] status = SEARCHING -> 2
      [] status = SUMMARIZING -> 3
      [] status = COMPLETED -> 4
      [] status = ERROR -> 5

\* C13: along the delivered sequence the status never moves backward in
\* the order Initializing < Searching < Summarizing < Completed, except
\* for a final Error.
C13_MonotonicStatus ==
    \A i \in 1..(Len(delivered) - 1) :
        \/ delivered[i + 1].status = ERROR /\ i + 1 = Len(delivered)
        \/ /\ delivered[i].status # ERROR
           /\ delivered[i + 1].status # ERROR
           /\ StatusRank(delivered[i].status)
                 <= StatusRank(delivered[i + 1].status)

RECURSIVE NonEmptyTexts(_)
\* the non-empty normalised texts of a sequence of messages, in order
NonEmptyTexts(msgs) ==
    IF msgs = <<>> THEN <<>>
    ELSE LET front == NonEmptyTexts(SubSeq(msgs, 1, Len(msgs) - 1))
             text == extract_message_content(msgs[Len(msgs)])
         IN  IF text = <<>> THEN front ELSE Append(front, text)

\* the events of the stream loop among the delivered ones
LoopEvents ==
    SelectSeq(delivered, LAMBDA ev : ev.progress_percent \in {60, 80})

\* C14: the buffer is the sequence of the non-empty normalised texts of
\* the messages yielded so far, in arrival order; every message, also one
\* that normalises to the empty text, is counted and has its progress
\* event; while the next message is awaited the events of all earlier
\* messages are delivered; the aggregator is handed the buffer joined
\* with blank lines.
C14_SequentialConsumption ==
    pc \in {"l244", "l259", "except", "done"} =>
        /\ all_messages = NonEmptyTexts(yielded)
        /\ message_count = Len(yielded)
        /\ progress_callback => Len(LoopEvents) = Len(yielded)
        /\ (pc = "done" /\ Returned /\ result.success)
              => result.content =
                    clean_content(Join(NLNL, NonEmptyTexts(yielded)))

\* C14 witness: the stream is awaited after a message that normalised to
\* the empty text and a message that did not, with a subscriber
C14_Witness ==
    /\ pc = "l244"
    /\ progress_callback
    /\ Len(yielded) = 3
    /\ extract_message_content(yielded[2]) = <<>>
    /\ Len(all_messages) = 2

====
